---- MODULE Spec2Model ----
(***************************************************************************)
(* A state-machine model of the noised synthesis engine: the V1            *)
(* RainGenerator, ThunderGenerator and NoiseDController, and the V2        *)
(* tick-driven RainGenerator and ThunderGenerator.                         *)
(*                                                                         *)
(* Conventions.  Time is in milliseconds.  Gains and levels are in         *)
(* hundredths (0.5 is 50), RandParam values in tenths (3 is 30, 0.5 is 5), *)
(* pitches in Hz, oscillation frequencies in tenths of Hz.  Math.random()   *)
(* draws from [0,1); the model draws from RandHalves (0 and 1/2).  The     *)
(* host audio engine is modelled only                                      *)
(* by what the generators store in it: a GainNode is built with gain 1     *)
(* (100), a timer is a record in the set of armed timers of its owner.     *)
(* Fields marked "history" are observations of the run, not program state. *)
(***************************************************************************)
EXTENDS Integers, Sequences, FiniteSets, TLC

VARIABLES
    sys,        \* which object or operation is exercised, one of Systems
    rain,       \* V1 RainGenerator
    thunder,    \* V1 ThunderGenerator
    ctl,        \* V1 NoiseDController
    rain2,      \* V2 RainGenerator
    thunder2,   \* V2 ThunderGenerator
    clock,      \* time of the window timers, ms; a real-time AudioContext's
                \* currentTime advances with it
    hist,       \* history of the V1 RainGenerator called directly
    wav,        \* _bufferToWavBlob: the AudioBuffer given and the file produced
    offlineCtx, \* renderToFile: the OfflineAudioContext it renders
    ctl2,       \* V2 NoiseDController
    insts,      \* two V1 NoiseDControllers and the objects their params refer to
    lastOp      \* history: whether the last operation, and the one before, was stop()

vars == <<sys, rain, thunder, ctl, rain2, thunder2, clock, hist, wav, offlineCtx, ctl2, insts,
          lastOp>>

---------------------------------------------------------------------------
(* Bounds of the exploration *)
MaxTime == 300      \* ms of logical time explored
MaxTimers == 2      \* armed timers per owner
MaxStrikes == 1     \* strikes recorded per run
MaxPending == 1     \* start() calls awaiting audioCtx.resume()
MaxFrames == 2      \* frames of an AudioBuffer given to the WAV encoder
MaxBuffers == 2     \* impulse-response buffers created per ThunderGenerator

NULL == 0
MsPerSecond == 1000

\* Numerators of the modelled draws of Math.random(): u/2 for u in RandHalves.
RandHalves == {0, 1}


\* The smallest identifier not in use (the host hands out fresh timer and node ids).
FreshId(used) == CHOOSE i \in 1..(Cardinality(used) + 1) : i \notin used

\* The audio graph: a node is <<name, index>>, a connection <<from, to>>.
Node(name) == <<name, 0>>
Destination == Node("destination")
\* node.disconnect(): every outgoing connection of the node is removed
disconnect(edges, node) == {e \in edges : e[1] # node}
\* nodes[i].connect(nodes[i + 1]) along a chain of n bands
Chain(name, n) == {<<(<<name, i>>), (<<name, i + 1>>)>> : i \in 1..(n - 1)}
RECURSIVE disconnectAll(_, _)
disconnectAll(edges, nodes) ==
    IF nodes = {} THEN edges
    ELSE LET n == CHOOSE x \in nodes : TRUE
         IN  disconnectAll(disconnect(edges, n), nodes \ {n})

LoopRoundsInclusive(count) == IF count < 0 THEN 0 ELSE count \div 10 + 1

\* Number of loop rounds of `for (let i = 0; i < count; i++)`, count in tenths.
LoopRounds(count) == IF count <= 0 THEN 0 ELSE (count + 9) \div 10

\* Math.floor of a value in tenths.
Floor10(x) == x \div 10

---------------------------------------------------------------------------
(* V1 RainGenerator *)

V1DropRates == {5, 10}

OscParam(v, o, a, f) == [value |-> v, osc |-> o, amp |-> a, freq |-> f]

V1_defaultRainParams ==
    [ volume |-> 50, noiseLevel |-> 20,
      noiseFilterFreq |-> OscParam(4000, FALSE, 1000, 1),
      dropDryLevel |-> 50, dropWetLevel |-> 50, dropRate |-> 30,
      dropDecayTime |-> 200,
      eqGains |-> [i \in 1..10 |-> 0],
      dropMinPitch |-> OscParam(300, FALSE, 100, 1),
      dropMaxPitch |-> OscParam(800, FALSE, 500, 1),
      dropReverbLevel |-> OscParam(40, FALSE, 20, 1),
      dropPanRange |-> OscParam(100, FALSE, 50, 1) ]

\* the EQ bands at eqFrequencies
V1RainEqBands == 10
V1Rain_eqBands == {<<"eqBands", i>> : i \in 1..V1RainEqBands}

\* the connections made by the constructor: the EQ chain into output, and
\* _connectNodes()
V1Rain_connectNodes ==
    Chain("eqBands", V1RainEqBands)
      \cup { <<(<<"eqBands", V1RainEqBands>>), Node("output")>>,
             <<Node("noiseGainNode"), Node("noiseFilter")>>,
             <<Node("noiseFilter"), Node("dryGain")>>,
             <<Node("dropGainNode"), Node("reverbNode")>>,
             <<Node("reverbNode"), Node("wetGain")>>,
             <<Node("dryDropGainNode"), (<<"eqBands", 1>>)>>,
             <<Node("dryGain"), (<<"eqBands", 1>>)>>,
             <<Node("wetGain"), (<<"eqBands", 1>>)>> }

V1Rain_constructor(ctxState, params) ==
    [ ctxState |-> ctxState,
      edges |-> V1Rain_connectNodes,
      startPending |-> 0,
      running |-> FALSE,
      noiseNode |-> NULL,
      sources |-> {},
      dropInterval |-> NULL,
      intervals |-> {},
      lfoMap |-> {},
      gain |-> [ output |-> 100, noiseGainNode |-> 100, dropGainNode |-> 100,
                 dryDropGainNode |-> 100, dryGain |-> 100, wetGain |-> 100 ],
      noiseFilterFrequency |-> 350,
      \* eqBands[i].gain.value
      eqBandGain |-> [i \in 1..V1RainEqBands |-> 0],
      params |-> params,
      lastDrop |-> [minPitch |-> 0, maxPitch |-> 0, panRange |-> 0, dryLevel |-> 0,
                    duration |-> 0],
      threw |-> FALSE ]

\* setInterval(playDrop, baseInterval)
V1Rain_startDrops(r) ==
    LET baseRate == r.params.dropRate
        baseInterval == MsPerSecond \div baseRate
        id == FreshId({t.id : t \in r.intervals} \cup {r.dropInterval})
    IN  [r EXCEPT !.intervals = @ \cup {[id |-> id, period |-> baseInterval, remaining |-> baseInterval]},
                  !.dropInterval = id]

clearInterval(intervals, id) == {t \in intervals : t.id # id}

V1Rain_setDropRate(r, param) ==
    LET r1 == [r EXCEPT !.params.dropRate = param]
        r2 == IF r1.dropInterval # NULL
                THEN [r1 EXCEPT !.intervals = clearInterval(@, r1.dropInterval)]
                ELSE r1
    IN  IF r2.running THEN V1Rain_startDrops(r2) ELSE r2

V1Rain_setOscParamWhileStopped(r, param, target, id) ==
    LET r2 == IF target = "noiseFilter.frequency"
                THEN [r EXCEPT !.noiseFilterFrequency = param.value]
                ELSE [r EXCEPT !.gain.wetGain = param.value]
    IN  IF param.osc THEN [r2 EXCEPT !.lfoMap = @ \cup {id}] ELSE [r2 EXCEPT !.lfoMap = @ \ {id}]

\* target is the AudioParam written: "noiseFilter.frequency" or "wetGain.gain"
V1Rain_setOscParam(r, param, target, id) ==
    LET r1 == [r EXCEPT !.lfoMap = @ \ {id}]
        r2 == IF target = "noiseFilter.frequency"
                THEN [r1 EXCEPT !.noiseFilterFrequency = param.value]
                ELSE [r1 EXCEPT !.gain.wetGain = param.value]
    IN  IF r2.running /\ param.osc
          THEN [r2 EXCEPT !.lfoMap = @ \cup {id}]
          ELSE r2

V1Rain_setNoiseFilterFreq(r, param) ==
    V1Rain_setOscParam([r EXCEPT !.params.noiseFilterFreq = param], param,
                       "noiseFilter.frequency", "noiseFilterFreq")

V1Rain_setDropReverbLevel(r, param) ==
    V1Rain_setOscParam([r EXCEPT !.params.dropReverbLevel = param], param,
                       "wetGain.gain", "dropReverbLevel")

V1Rain_setPanRange(r, param) == [r EXCEPT !.params.dropPanRange = param]

V1Rain_setPitchRange(r, min, max) ==
    [r EXCEPT !.params.dropMinPitch = min, !.params.dropMaxPitch = max]

V1Rain_setNoiseLevel(r, value) == [r EXCEPT !.gain.dryGain = value]
V1Rain_setDropDryLevel(r, value) == [r EXCEPT !.gain.dryDropGainNode = value]
V1Rain_setDropWetLevel(r, value) == [r EXCEPT !.gain.dropGainNode = value]
V1Rain_setVolume(r, value) == [r EXCEPT !.gain.output = value]

\* stop and drop the previous looping source, create and start a new one
V1Rain_startNoise(r) ==
    LET live == IF r.noiseNode # NULL THEN r.sources \ {r.noiseNode} ELSE r.sources
        id == FreshId(live \cup {r.noiseNode})
        cut == IF r.noiseNode # NULL THEN disconnect(r.edges, <<"noiseNode", r.noiseNode>>)
               ELSE r.edges
    IN  [r EXCEPT !.noiseNode = id, !.sources = live \cup {id},
                  !.edges = cut \cup {<<(<<"noiseNode", id>>), Node("noiseGainNode")>>}]

V1Rain_setNoiseType(r) == IF r.running THEN V1Rain_startNoise(r) ELSE r

\* the part of start() after `await this.audioCtx.resume()`
V1Rain_startBody(r) ==
    LET r1 == [r EXCEPT !.running = TRUE,
                        !.gain.output = r.params.volume,
                        !.gain.noiseGainNode = (r.params.volume * 40) \div 100,
                        !.gain.dropGainNode = r.params.dropWetLevel,
                        !.gain.dryDropGainNode = r.params.dropDryLevel,
                        !.gain.dryGain = r.params.noiseLevel,
                        !.gain.wetGain = r.params.dropReverbLevel.value]
        r2 == V1Rain_setNoiseType(r1)
        r3 == V1Rain_setNoiseFilterFreq(r2, r2.params.noiseFilterFreq)
        r4 == V1Rain_setDropReverbLevel(r3, r3.params.dropReverbLevel)
        r5 == V1Rain_setDropRate(r4, r4.params.dropRate)
        r6 == V1Rain_setPanRange(r5, r5.params.dropPanRange)
    IN  V1Rain_startDrops(r6)

\* start(): returns at once when running; suspends at the await when the
\* context is a suspended AudioContext; runs the body otherwise (ctxState is
\* "offline" for an OfflineAudioContext, which is not an AudioContext).
V1Rain_start(r) ==
    IF r.running THEN r
    ELSE IF r.ctxState = "suspended"
      THEN [r EXCEPT !.startPending = @ + 1]
      ELSE V1Rain_startBody(r)

\* the continuation of a suspended start(): resume() has resolved
V1Rain_resumed(r) ==
    V1Rain_startBody([r EXCEPT !.ctxState = "running", !.startPending = @ - 1])

\* `if (this.noiseNode)` in stop()
V1Rain_stopGuard(r) == r.noiseNode # NULL

\* A call on a null reference throws and ends the handler.
V1Rain_stop(r) ==
    LET r1 == [r EXCEPT !.running = FALSE]
        r2 == IF V1Rain_stopGuard(r1)
                THEN [r1 EXCEPT !.sources = @ \ {r1.noiseNode}, !.noiseNode = NULL,
                                !.edges = disconnect(@, <<"noiseNode", r1.noiseNode>>),
                                !.threw = @ \/ r1.noiseNode = NULL]
                ELSE r1
        r3 == IF r2.dropInterval # NULL
                THEN [r2 EXCEPT !.intervals = clearInterval(@, r2.dropInterval),
                                !.dropInterval = NULL]
                ELSE r2
    IN  IF r2.threw THEN r2
        ELSE [r3 EXCEPT !.lfoMap = {},
                   !.gain = [ output |-> 0, noiseGainNode |-> 0, dropGainNode |-> 0,
                              dryDropGainNode |-> 0, dryGain |-> 0, wetGain |-> 0 ]]

\* connect(node)
V1Rain_connect(r, node) == [r EXCEPT !.edges = @ \cup {<<Node("output"), node>>}]

\* the nodes destroy() disconnects
V1Rain_disconnected ==
    { Node("output"), Node("noiseGainNode"), Node("noiseFilter"), Node("dropGainNode"),
      Node("dryDropGainNode"), Node("reverbNode"), Node("dryGain"), Node("wetGain") }
      \cup V1Rain_eqBands

\* destroy(): stop(), then the nodes and the LFOs are disconnected and the
\* references dropped
V1Rain_destroy(r) ==
    LET r1 == V1Rain_stop(r)
    IN  [r1 EXCEPT !.edges = disconnectAll(@, V1Rain_disconnected),
                   !.lfoMap = {},
                   !.noiseNode = NULL,
                   !.dropInterval = NULL]

\* _applyParams: eqGains of the bands' length are written to the bands, and
\* the merged parameters are stored
V1Rain_applyParams(r, newParams) ==
    LET updated == [k \in DOMAIN r.params |->
                      IF k \in DOMAIN newParams THEN newParams[k] ELSE r.params[k]]
        applied == IF "eqGains" \in DOMAIN newParams
                     THEN Len(newParams.eqGains) = Len(r.eqBandGain)
                     ELSE FALSE
    IN  [r EXCEPT !.eqBandGain = IF applied THEN newParams.eqGains ELSE @,
                  !.params = updated]

V1Rain_setParams(r, newParams) == V1Rain_applyParams(r, newParams)

\* the longest grain buffer of a V1 drop, in ms
MaxGrain == 200

\* Math.min
Min(a, b) == IF a <= b THEN a ELSE b

\* the setInterval callback: one drop voice, recorded by the parameter values
\* it reads (its pitch is drawn between minPitch and maxPitch, its pan within
\* panRange)
V1Rain_playDrop(r) ==
    [r EXCEPT !.lastDrop =
                [ minPitch |-> r.params.dropMinPitch.value,
                  maxPitch |-> r.params.dropMaxPitch.value,
                  panRange |-> r.params.dropPanRange.value,
                  dryLevel |-> r.params.dropDryLevel,
                  duration |-> Min(r.params.dropDecayTime, MaxGrain) ]]

\* a due interval timer fires and is rearmed with its period
V1Rain_intervalFires(r, t) ==
    LET r1 == [r EXCEPT !.intervals = (@ \ {t}) \cup {[t EXCEPT !.remaining = t.period]}]
    IN  V1Rain_playDrop(r1)

\* logical time advances by d: every armed interval comes d closer
V1Rain_advance(r, d) ==
    [r EXCEPT !.intervals = {[t EXCEPT !.remaining = @ - d] : t \in @}]

---------------------------------------------------------------------------
(* V1 ThunderGenerator *)

RandParam(v, r, d) == [value |-> v, rand |-> r, dist |-> d]

\* values in the unit of each parameter: levels in hundredths, counts and
\* durations in tenths, frequencies in Hz
V1_defaultThunderParams ==
    [ volume |-> RandParam(50, FALSE, 20),
      duration |-> RandParam(20, FALSE, 2),
      filterFreq |-> RandParam(750, FALSE, 500),
      burstCount |-> RandParam(30, FALSE, 10),
      delayMs |-> 0,
      reverbDuration |-> RandParam(20, FALSE, 5),
      reverbDecay |-> RandParam(20, FALSE, 5),
      reverbWetLevel |-> RandParam(40, FALSE, 20),
      subLevel |-> RandParam(10, FALSE, 10),
      panRange |-> RandParam(10, FALSE, 5),
      highPassFreq |-> RandParam(20, FALSE, 5),
      crackleAmount |-> RandParam(10, FALSE, 5) ]

\* the parameters _playSingleBurst evaluates, with the defaults of its idiom
BurstParams ==
    {"filterFreq", "highPassFreq", "panRange", "reverbWetLevel", "subLevel", "crackleAmount"}
BurstDefault ==
    [ filterFreq |-> 1500, highPassFreq |-> 10, panRange |-> 10,
      reverbWetLevel |-> 40, subLevel |-> 10, crackleAmount |-> 10 ]

NoBurst ==
    [ filterFreq |-> 0, highPassFreq |-> 0, panRange |-> 0, reverbWetLevel |-> 0,
      subLevel |-> 0, crackleAmount |-> 0, duration |-> 0, volume |-> 0, convolver |-> NULL ]

\* buffers is the heap of impulse-response AudioBuffers ever created, a buffer's
\* identity being its place; convolvers are the ConvolverNodes of the burst
\* voices created, each with the buffer it refers to.
V1Thunder_constructor(params) ==
    [ params |-> params,
      reverbBuffer |-> NULL,
      buffers |-> <<>>,
      convolvers |-> {},
      strikes |-> <<>>,
      destroyed |-> FALSE,
      \* history: the number of strikes triggered before the latest
      \* controller stop() or destroy()
      halted |-> 0 ]

\* The inline evaluation `p?.value ? (p.rand ? p.value + Math.random() * p.dist
\* : p.value) : dflt`; u is the draw.  A value of 0 is falsy.
V1Thunder_evalRand(p, dflt, u) ==
    IF p.value # 0
      THEN IF p.rand THEN p.value + (u * p.dist) \div 2 ELSE p.value
      ELSE dflt

\* createImpulseResponse(ctx, duration, decay): a new buffer filled once; its
\* noise samples are not modelled, its length and envelope are
createImpulseResponse(duration, decay) == [duration |-> duration, decay |-> decay]

V1Thunder_setGeneratedReverbInPlace(th, uDuration, uDecay) ==
    LET duration == V1Thunder_evalRand(th.params.reverbDuration, 20, uDuration)
        decay == V1Thunder_evalRand(th.params.reverbDecay, 20, uDecay)
    IN  IF th.reverbBuffer # NULL
          THEN [th EXCEPT !.buffers[th.reverbBuffer] = createImpulseResponse(duration, decay)]
          ELSE [th EXCEPT !.buffers = Append(@, createImpulseResponse(duration, decay)),
                          !.reverbBuffer = Len(th.buffers) + 1]

\* setGeneratedReverb(): this.reverbBuffer refers to a newly created buffer
V1Thunder_setGeneratedReverb(th, uDuration, uDecay) ==
    LET duration == V1Thunder_evalRand(th.params.reverbDuration, 20, uDuration)
        decay == V1Thunder_evalRand(th.params.reverbDecay, 20, uDecay)
    IN  [th EXCEPT !.buffers = Append(@, createImpulseResponse(duration, decay)),
                   !.reverbBuffer = Len(th.buffers) + 1]

\* triggerThunder(): evaluates the strike's parameters and arms setTimeout(delay).
\* A strike is recorded with the parameter it evaluated (history); duration and
\* volume are the values its bursts are given, before their random factor;
\* inForce (history) is set when the strike fires.
V1Thunder_triggerThunder(th, u) ==
    LET burstCount == V1Thunder_evalRand(th.params.burstCount, 10, u.burstCount)
        duration == V1Thunder_evalRand(th.params.duration, 20, u.duration)
        volume == V1Thunder_evalRand(th.params.volume, 50, u.volume)
    IN  [th EXCEPT !.strikes = Append(@,
            [ param |-> th.params.burstCount, burstCount |-> burstCount,
              duration |-> duration, volume |-> volume,
              fired |-> FALSE, rumble |-> 0, bursts |-> 0, pending |-> 0,
              inForce |-> <<>>, lastBurst |-> NoBurst ])]

\* the setTimeout(delay) callback of strike i: one rumble voice, and one
\* setTimeout(_playSingleBurst) per round of the burst loop; inForce (history)
\* is what the parameters a burst voice reads are at that moment
V1Thunder_strikeBody(th, i) ==
    [th EXCEPT !.strikes[i].fired = TRUE,
               !.strikes[i].rumble = @ + 1,
               !.strikes[i].pending = LoopRounds(th.strikes[i].burstCount),
               !.strikes[i].inForce = [k \in BurstParams |-> th.params[k]]]

\* one burst timeout of strike i fires: _playSingleBurst(duration, volume)
\* creates a burst voice; us are its draws
V1Thunder_playSingleBurst(th, i, us) ==
    LET used == [k \in BurstParams |-> V1Thunder_evalRand(th.params[k], BurstDefault[k], us[k])]
        voice == [ filterFreq |-> used.filterFreq, highPassFreq |-> used.highPassFreq,
                   panRange |-> used.panRange, reverbWetLevel |-> used.reverbWetLevel,
                   subLevel |-> used.subLevel, crackleAmount |-> used.crackleAmount,
                   duration |-> th.strikes[i].duration, volume |-> th.strikes[i].volume,
                   convolver |-> th.reverbBuffer ]
    IN  [th EXCEPT !.strikes[i].pending = @ - 1,
                   !.strikes[i].bursts = @ + 1,
                   !.strikes[i].lastBurst = voice,
                   !.convolvers = IF th.reverbBuffer # NULL
                                    THEN @ \cup {[ buffer |-> th.reverbBuffer,
                                                   kernel |-> th.buffers[th.reverbBuffer] ]}
                                    ELSE @]

V1Thunder_applyParams(th, newParams) ==
    LET updated == [k \in DOMAIN th.params |->
                      IF k \in DOMAIN newParams THEN newParams[k] ELSE th.params[k]]
    IN  [th EXCEPT !.params = updated]

V1Thunder_setParams(th, newParams) == V1Thunder_applyParams(th, newParams)

\* destroy(): the output, limiter and EQ bands are disconnected and the
\* reverb buffer reference dropped; no timer is cancelled
V1Thunder_destroy(th) ==
    [th EXCEPT !.reverbBuffer = NULL, !.destroyed = TRUE, !.halted = Len(th.strikes)]

---------------------------------------------------------------------------
(* V1 NoiseDController *)

V1Ctl_constructor(delay) ==
    [ running |-> FALSE,
      rainOn |-> TRUE,
      thunderOn |-> TRUE,
      thunderTimeout |-> NULL,
      timeouts |-> {},
      delayBetweenThunders |-> delay,
      thunderParams |-> V1_defaultThunderParams,
      \* history: the time since a strike timer was last armed, and what that
      \* time was when the last strike fired (-1 before the first)
      sinceArmed |-> 0,
      lastGap |-> -1 ]

\* _rand(min, max) with draw u
V1Ctl_rand(min, max, u) == (u * (max - min)) \div 2 + min

clearTimeout(timeouts, id) == {t \in timeouts : t.id # id}

V1Ctl_scheduleThunderNever(c, u) == c

\* scheduleThunder(): arms window.setTimeout with a sampled delay
V1Ctl_scheduleThunder(c, u) ==
    IF ~c.running \/ ~c.thunderOn THEN c
    ELSE LET delay == V1Ctl_rand(c.delayBetweenThunders.min, c.delayBetweenThunders.max, u)
             id == FreshId({t.id : t \in c.timeouts} \cup {c.thunderTimeout})
         IN  [c EXCEPT !.timeouts = @ \cup {[id |-> id, remaining |-> delay]},
                       !.thunderTimeout = id,
                       !.sinceArmed = 0]

\* the part of stop() and stopThunder() that cancels the strike timer
V1Ctl_cancelThunder(c) ==
    IF c.thunderTimeout # NULL
      THEN [c EXCEPT !.timeouts = clearTimeout(@, c.thunderTimeout), !.thunderTimeout = NULL]
      ELSE c

V1Ctl_stop(c) == V1Ctl_cancelThunder([c EXCEPT !.running = FALSE])

V1Ctl_stopThunder(c) == V1Ctl_cancelThunder([c EXCEPT !.thunderOn = FALSE])

V1Ctl_startThunder(c, u) == V1Ctl_scheduleThunder([c EXCEPT !.thunderOn = TRUE], u)

\* updateThunderParams(newThunderParams): the merged set is kept and handed
\* whole to thunder.setParams
V1Ctl_updateThunderParams(c, th, newThunderParams) ==
    LET merged == [k \in DOMAIN c.thunderParams |->
                     IF k \in DOMAIN newThunderParams THEN newThunderParams[k]
                     ELSE c.thunderParams[k]]
    IN  [ ctl |-> [c EXCEPT !.thunderParams = merged],
          thunder |-> V1Thunder_setParams(th, merged) ]

\* setThunderParams(newParams): thunder.setParams(newParams), the merge, and
\* setGeneratedReverb() when newParams has reverbDuration or reverbDecay
V1Ctl_setThunderParams(c, th, newParams, uDuration, uDecay) ==
    LET th1 == V1Thunder_setParams(th, newParams)
        merged == [k \in DOMAIN c.thunderParams |->
                     IF k \in DOMAIN newParams THEN newParams[k] ELSE c.thunderParams[k]]
    IN  [ ctl |-> [c EXCEPT !.thunderParams = merged],
          thunder |-> IF "reverbDuration" \in DOMAIN newParams \/ "reverbDecay" \in DOMAIN newParams
                        THEN V1Thunder_setGeneratedReverb(th1, uDuration, uDecay)
                        ELSE th1 ]

V1Ctl_advance(c, d) ==
    [c EXCEPT !.timeouts = {[t EXCEPT !.remaining = @ - d] : t \in @},
              !.sinceArmed = IF c.timeouts # {} THEN @ + d ELSE @]

\* the window.setTimeout callback of scheduleThunder, timer t: the strike
\* (thunder.triggerThunder(), on the generator) and scheduleThunder()
V1Ctl_strikeTimer(c, t, uDelay) ==
    V1Ctl_scheduleThunder([c EXCEPT !.timeouts = @ \ {t}, !.lastGap = c.sinceArmed], uDelay)

---------------------------------------------------------------------------
(* V1 NoiseDController instances built with default parameters.  An object  *)
(* (a rainParams or thunderParams record, an eqGains array) is held in a    *)
(* heap under the name of its owner: "default" for the objects of           *)
(* _defaultNoiseDParams, an instance's name for an object it created.       *)

Instances == {"a", "b"}

\* new NoiseDController(ctx) twice: `this.params = {..._defaultNoiseDParams,
\* ...params}` copies the references to rainParams, thunderParams and eqGains
V1Insts_constructor ==
    [ rainParams |-> [o \in Instances \cup {"default"} |-> [on |-> TRUE, volume |-> 50]],
      thunderParams |-> [o \in Instances \cup {"default"} |-> [on |-> TRUE]],
      eqGains |-> [o \in Instances \cup {"default"} |-> [i \in 1..V1RainEqBands |-> 0]],
      refs |-> [o \in Instances \cup {"default"} |->
                  [rainParams |-> "default", thunderParams |-> "default", eqGains |-> "default"]],
      \* history: the instance last called
      caller |-> "a" ]

\* what owner o (an instance, or _defaultNoiseDParams) reads as its params;
\* rainParams.on is what start() tests before rain.start()
V1Insts_params(x, o) ==
    [ rainParams |-> x.rainParams[x.refs[o].rainParams],
      thunderParams |-> x.thunderParams[x.refs[o].thunderParams],
      eqGains |-> x.eqGains[x.refs[o].eqGains] ]

---------------------------------------------------------------------------
(* V1 NoiseDController.renderToFile *)

\* new OfflineAudioContext(2, durationSec * sampleRate, sampleRate), times in
\* ms.  currentTime is the rendered (logical) time; elapsed is the time of the
\* window timers since controller.start().  drops, strikes and the last of each
\* are history: where the event lies in rendered time, and where in timer time.
OfflineAudioContext(length) ==
    [ started |-> FALSE,
      length |-> length,
      currentTime |-> 0,
      elapsed |-> 0,
      result |-> "none",
      drops |-> 0,
      lastDrop |-> [logical |-> 0, elapsed |-> 0],
      strikes |-> 0,
      lastStrike |-> [logical |-> 0, elapsed |-> 0] ]

\* renderToFile up to its first await: a controller on the offline context is
\* started and startRendering() called.  u is the draw of scheduleThunder.
V1Ctl_renderToFile(c, r, o, u) ==
    [ ctl |-> V1Ctl_scheduleThunder([c EXCEPT !.running = TRUE], u),
      rain |-> IF c.rainOn THEN V1Rain_start(r) ELSE r,
      offlineCtx |-> [o EXCEPT !.started = TRUE] ]

\* the context renders q more ms, whatever the window timers do
Offline_render(o, q) ==
    [o EXCEPT !.currentTime = IF o.currentTime + q > o.length THEN o.length ELSE o.currentTime + q]

\* rendering is complete: the first await resumes and startRendering() is
\* called a second time, which rejects (InvalidStateError), so renderToFile
\* rejects; the controller it started is left running
Offline_complete(o) == [o EXCEPT !.result = "rejected"]

\* playDrop / triggerThunder run on the offline context: `now` is currentTime
Offline_drop(o) ==
    [o EXCEPT !.drops = @ + 1,
              !.lastDrop = [logical |-> o.currentTime, elapsed |-> o.elapsed]]
Offline_strike(o) ==
    [o EXCEPT !.strikes = @ + 1,
              !.lastStrike = [logical |-> o.currentTime, elapsed |-> o.elapsed]]

---------------------------------------------------------------------------
(* V1 NoiseDController._bufferToWavBlob *)
(* Samples are in halves (1.0 is 2); a file is its sequence of bytes.      *)

HeaderSize == 44
NegScale == 32768      \* 0x8000
PosScale == 32767      \* 0x7FFF

\* charCodeAt of the four header tags
TagRIFF == <<82, 73, 70, 70>>
TagWAVE == <<87, 65, 86, 69>>
TagFmt == <<102, 109, 116, 32>>
TagData == <<100, 97, 116, 97>>

\* view.setUint32(offset, v, true) and view.setUint16(offset, v, true)
Uint32LE(v) ==
    << v % 256, (v \div 256) % 256, (v \div 65536) % 256, (v \div 16777216) % 256 >>
Uint16LE(v) ==
    LET u == v % 65536
    IN  << u % 256, u \div 256 >>

AudioBuffer(channels, sampleRate) ==
    [ numberOfChannels |-> Len(channels), length |-> Len(channels[1]),
      sampleRate |-> sampleRate, channels |-> channels ]

Wav_dataSizeOffByFour(length, offset) == length - offset

\* `length - offset - 4`, the value of the data size field
Wav_dataSize(length, offset) == length - offset - 4

\* the 44 header bytes, written in order
Wav_header(buffer) ==
    LET numOfChan == buffer.numberOfChannels
        length == buffer.length * numOfChan * 2 + HeaderSize
        h1 == TagRIFF \o Uint32LE(length - 8) \o TagWAVE \o TagFmt
                \o Uint32LE(16) \o Uint16LE(1) \o Uint16LE(numOfChan)
                \o Uint32LE(buffer.sampleRate)
                \o Uint32LE(buffer.sampleRate * numOfChan * 2)
                \o Uint16LE(numOfChan * 2) \o Uint16LE(16) \o TagData
    IN  h1 \o Uint32LE(Wav_dataSize(length, Len(h1)))

\* buffer.copyFromChannel(interleaved.subarray(ch, interleaved.length), ch):
\* the frames of channel ch, as many as fit, land in consecutive places
\* starting at place ch (channels and places counted from 0)
Wav_copyFromChannel(interleaved, buffer, ch) ==
    LET room == Len(interleaved) - ch
        count == IF buffer.length <= room THEN buffer.length ELSE room
    IN  [ i \in 1..Len(interleaved) |->
            IF i - 1 >= ch /\ i - 1 < ch + count
              THEN buffer.channels[ch + 1][i - ch]
              ELSE interleaved[i] ]

\* the loop `for (let ch = 0; ch < numOfChan; ch++)`
RECURSIVE Wav_copyLoop(_, _, _)
Wav_copyLoop(interleaved, buffer, ch) ==
    IF ch < buffer.numberOfChannels
      THEN Wav_copyLoop(Wav_copyFromChannel(interleaved, buffer, ch), buffer, ch + 1)
      ELSE interleaved

Wav_interleaved(buffer) ==
    Wav_copyLoop([i \in 1..(buffer.length * buffer.numberOfChannels) |-> 0], buffer, 0)

Wav_convertSampleOneScale(x) ==
    LET s == IF x < -2 THEN -2 ELSE IF x > 2 THEN 2 ELSE x
    IN  ((((s * NegScale) \div 2) + 32768) % 65536) - 32768

\* Math.max(-1, Math.min(1, x)), scaled by 0x8000 or 0x7FFF and stored in an
\* Int16Array (truncated towards zero); x and the bounds in halves
Wav_convertSample(x) ==
    LET s == IF x < -2 THEN -2 ELSE IF x > 2 THEN 2 ELSE x
    IN  IF s < 0 THEN (s * NegScale) \div 2 ELSE (s * PosScale) \div 2

RECURSIVE Wav_bytes(_)
Wav_bytes(output) ==
    IF output = <<>> THEN <<>>
    ELSE Uint16LE(Head(output)) \o Wav_bytes(Tail(output))

Wav_bufferToWavBlob(buffer) ==
    LET interleaved == Wav_interleaved(buffer)
        output == [i \in 1..Len(interleaved) |-> Wav_convertSample(interleaved[i])]
    IN  [ interleaved |-> interleaved,
          bytes |-> Wav_header(buffer) \o Wav_bytes(output) ]

---------------------------------------------------------------------------
(* V2 RainGenerator *)

\* Math.sin(2*PI*x/10000) for x = time (ms) * freq (tenths of Hz), at the
\* quarter cycles the model samples (x a multiple of 2500), taken as exact.
SinQuarter(x) ==
    LET q == (x \div 2500) % 4
    IN  CASE q = 0 -> 0 [] q = 1 -> 1 [] q = 2 -> 0 [] OTHER -> -1

\* the EQ bands the constructor asks BaseGenerator for
V2RainEqBands == 6
V2Rain_eqNode == {<<"eqNode", i>> : i \in 1..V2RainEqBands}

\* the connections made by BaseGenerator's and RainGenerator's constructors
V2Rain_constructorEdges ==
    Chain("eqNode", V2RainEqBands)
      \cup { <<(<<"eqNode", V2RainEqBands>>), Node("gainNode")>>,
             <<Node("gainNode"), Destination>>,
             <<Node("reverbNode"), Node("gainNode")>>,
             <<Node("dryDropGainNode"), Node("dropGainNode")>>,
             <<Node("wetDropGainNode"), Node("dropGainNode")>>,
             <<Node("dropGainNode"), Node("gainNode")>>,
             <<Node("noiseGainNode"), Node("gainNode")>> }

V2Rain_constructor(rate, osc) ==
    [ time |-> 0,
      edges |-> V2Rain_constructorEdges,
      dropInterval |-> 0,
      noiseSource |-> NULL,
      sources |-> {},
      noiseFilterFrequency |-> 350,
      params |-> [ rate |-> rate, dryLevel |-> 50, decayTime |-> 500, osc |-> osc ],
      lastDrop |-> [minPitch |-> 0, maxPitch |-> 0, panRange |-> 0, duration |-> 0],
      threw |-> FALSE,
      \* history
      configured |-> osc,
      everStarted |-> FALSE,
      started |-> FALSE,
      sinceStart |-> [elapsed |-> 0, drops |-> 0] ]

\* start(): creates, connects and starts a looping noise source
V2Rain_start(r) ==
    LET id == FreshId(r.sources \cup {r.noiseSource})
    IN  [r EXCEPT !.noiseSource = id,
                  !.sources = @ \cup {id},
                  !.edges = @ \cup { <<(<<"noiseSource", id>>), Node("noiseFilter")>>,
                                     <<Node("noiseFilter"), Node("noiseGainNode")>> },
                  !.noiseFilterFrequency = r.params.osc.filterFreq.value,
                  !.everStarted = TRUE,
                  !.started = TRUE,
                  !.sinceStart = [elapsed |-> 0, drops |-> 0]]

V2Rain_stopGuardMissing(r) == TRUE

\* `if (this.noiseSource)` in stop()
V2Rain_stopGuard(r) == r.noiseSource # NULL

\* A call on a null reference throws and ends the handler.
V2Rain_stop(r) ==
    LET r1 == IF V2Rain_stopGuard(r)
                THEN [r EXCEPT !.sources = @ \ {r.noiseSource}, !.noiseSource = NULL,
                               !.edges = disconnect(@, <<"noiseSource", r.noiseSource>>),
                               !.threw = @ \/ r.noiseSource = NULL]
                ELSE r
    IN  IF r1.threw THEN r1 ELSE [r1 EXCEPT !.dropInterval = 0, !.started = FALSE]

\* destroy(): stop(), then noiseFilter and noiseGain are disconnected
V2Rain_destroy(r) ==
    LET r1 == V2Rain_stop(r)
    IN  [r1 EXCEPT !.edges = disconnect(disconnect(@, Node("noiseFilter")), Node("noiseGain"))]

V2_randomBetween(min, max, u) == min + (u * (max - min)) \div 2

\* scheduleDrop(): one drop voice, recorded by the parameter values it reads
\* (its pitch is drawn between minPitch and maxPitch, its pan within panRange)
V2Rain_scheduleDrop(r) ==
    [r EXCEPT !.lastDrop =
        [ minPitch |-> r.params.osc.minPitch.value,
          maxPitch |-> r.params.osc.maxPitch.value,
          panRange |-> r.params.osc.panRange.value,
          duration |-> r.params.decayTime ],
      !.sinceStart.drops = @ + 1]

V2Rain_dropLoopOnce(r, timePerDrop) ==
    IF r.dropInterval >= timePerDrop
      THEN V2Rain_scheduleDrop([r EXCEPT !.dropInterval = @ - timePerDrop])
      ELSE r

\* the `while (this.dropInterval >= timePerDrop)` loop
RECURSIVE V2Rain_dropLoop(_, _)
V2Rain_dropLoop(r, timePerDrop) ==
    IF r.dropInterval >= timePerDrop
      THEN V2Rain_dropLoop(V2Rain_scheduleDrop([r EXCEPT !.dropInterval = @ - timePerDrop]),
                           timePerDrop)
      ELSE r

\* applyOsc(param, path): writes the modulated value back into params at path
V2Rain_applyOsc(r, param, key) ==
    LET modulated == param.value + SinQuarter(r.time * param.freq) * param.amp
    IN  [r EXCEPT !.params.osc[key] = [param EXCEPT !.value = modulated]]

V2Rain_tick(r, dt) ==
    LET r0 == [r EXCEPT !.time = @ + dt, !.dropInterval = @ + dt,
                        !.sinceStart.elapsed = @ + dt]
        timePerDrop == MsPerSecond \div r0.params.rate
        r1 == V2Rain_dropLoop(r0, timePerDrop)
        r2 == V2Rain_applyOsc(r1, r1.params.osc.minPitch, "minPitch")
        r3 == V2Rain_applyOsc(r2, r2.params.osc.maxPitch, "maxPitch")
        r4 == V2Rain_applyOsc(r3, r3.params.osc.reverbLevel, "reverbLevel")
        r5 == V2Rain_applyOsc(r4, r4.params.osc.panRange, "panRange")
        r6 == V2Rain_applyOsc(r5, r5.params.osc.filterFreq, "filterFreq")
    IN  [r6 EXCEPT !.noiseFilterFrequency = r6.params.osc.filterFreq.value]

---------------------------------------------------------------------------
(* V2 ThunderGenerator *)

V2Thunder_constructor(params) ==
    [ thunderTimer |-> 0,
      params |-> params,
      lastStrike |-> [n |-> 0, param |-> params.burstCount, count |-> 0,
                      bursts |-> 0, rumbles |-> 0, crackles |-> 0],
      \* history: sinceStrike is the time ticked since start() or the last
      \* strike; gap is what it was at the last strike, fired by a tick of dt
      \* that found the generator started or not
      everStarted |-> FALSE,
      started |-> FALSE,
      sinceStrike |-> 0,
      gap |-> [time |-> 0, dt |-> 0, started |-> FALSE] ]

V2Thunder_start(th) ==
    [th EXCEPT !.thunderTimer = 0, !.everStarted = TRUE, !.started = TRUE, !.sinceStrike = 0]

V2Thunder_stop(th) == [th EXCEPT !.thunderTimer = 0, !.started = FALSE]

\* rand(param) with draw u
V2Thunder_rand(param, u) ==
    IF param.rand
      THEN V2_randomBetween(param.value - param.dist, param.value + param.dist, u)
      ELSE param.value

\* triggerThunder(): one scheduleBurst per loop round, one scheduleRumble,
\* and scheduleCrackle's floor(rand(crackleAmount)) pops
V2Thunder_triggerThunder(th, uCount, uCrackle) ==
    LET count == V2Thunder_rand(th.params.burstCount, uCount)
        crackle == Floor10(V2Thunder_rand(th.params.crackleAmount, uCrackle))
    IN  [th EXCEPT !.lastStrike =
            [ n |-> th.lastStrike.n + 1, param |-> th.params.burstCount, count |-> count,
              bursts |-> LoopRounds(count), rumbles |-> 1,
              crackles |-> IF crackle > 0 THEN crackle ELSE 0 ]]

V2Thunder_tick(th, dt, uDelay, uCount, uCrackle) ==
    LET t1 == [th EXCEPT !.thunderTimer = @ + dt, !.sinceStrike = @ + dt]
        delay == V2_randomBetween(t1.params.delayBetweenThunders.min,
                                  t1.params.delayBetweenThunders.max, uDelay)
    IN  IF t1.thunderTimer >= delay
          THEN V2Thunder_triggerThunder(
                   [t1 EXCEPT !.thunderTimer = @ - delay,
                              !.gap = [time |-> t1.sinceStrike, dt |-> dt, started |-> th.started],
                              !.sinceStrike = 0],
                   uCount, uCrackle)
          ELSE t1

---------------------------------------------------------------------------
(* V2 NoiseDController *)

\* the `on` flags of params.rainParams and params.thunderParams
V2Ctl_constructor(rainOn, thunderOn) == [rainOn |-> rainOn, thunderOn |-> thunderOn]

V2Ctl_start(c, r, th) ==
    [ rain |-> IF c.rainOn THEN V2Rain_start(r) ELSE r,
      thunder |-> IF c.thunderOn THEN V2Thunder_start(th) ELSE th ]

\* stop(): rain.stop(), then thunder.stop() unless the first threw
V2Ctl_stop(c, r, th) ==
    LET r1 == V2Rain_stop(r)
    IN  [ rain |-> r1, thunder |-> IF r1.threw THEN th ELSE V2Thunder_stop(th) ]

\* tick(dt): rain.tick?.(dt); thunder.tick?.(dt)
V2Ctl_tick(c, r, th, dt, uDelay, uCount, uCrackle) ==
    [ rain |-> V2Rain_tick(r, dt),
      thunder |-> V2Thunder_tick(th, dt, uDelay, uCount, uCrackle) ]

---------------------------------------------------------------------------
(* The state machine.  One object is exercised per behaviour (sys); the    *)
(* others stay as constructed.                                             *)

Systems ==
    {"V1Ctl", "V1Rain", "V1Thunder", "V1CtlThunder", "V2Rain", "V2Thunder", "V2Ctl", "Wav", "Offline",
     "V1Levels", "V1Insts"}

\* Inputs of the operations
AdvanceSteps == {100}
RenderSteps == {100, 200}
RenderDurations == {200}
TickSteps == {100, 200}
\* drop decay times, in ms
DecayTimes == {100, 500}
\* the ticks and the strike delays of the V2 controller
Ctl2TickSteps == {50}
Ctl2ThunderDelays == { [min |-> 150, max |-> 350] }
Levels == {30}
\* setEqGain(index, value) inputs: a band, and an index outside the bands
EqIndexes == {0, V1RainEqBands}
EqGainInputs == {6}
\* setParams({eqGains}) inputs: one gain per band, and an array of one gain
EqGainArrays == { [i \in 1..V1RainEqBands |-> IF i = 1 THEN 6 ELSE 0], <<6>> }
\* the gain nodes the level setters write
LevelGains == {"output", "dryGain", "dryDropGainNode", "dropGainNode"}
V1OscInputs == { OscParam(4000, FALSE, 1000, 1), OscParam(2000, TRUE, 1000, 1) }
V2OscFreqs == {0, 25}
BurstCounts ==
    { RandParam(30, FALSE, 10), RandParam(5, FALSE, 10), RandParam(0, FALSE, 10),
      RandParam(30, TRUE, 10), RandParam(0, TRUE, 4), RandParam(24, TRUE, 0) }
ThunderDelays == { [min |-> 100, max |-> 300] }

SampleHalves == {-3, -2, -1, 0, 1, 2, 3}
SampleRates == {44100}
ChannelCounts == {1, 2}
WavBuffers(n, len) ==
    { AudioBuffer(chs, sr) : chs \in [1..n -> [1..len -> SampleHalves]], sr \in SampleRates }

\* the draw of a parameter whose rand is off in every parameter set explored
\* is not used
NoDraw == {0}
\* the draws of one triggerThunder()
StrikeDraws == [burstCount : RandHalves, duration : NoDraw, volume : NoDraw]
\* the draws of one _playSingleBurst(); the draw of a parameter whose rand is
\* off is not used and is taken as 0
BurstDraws(params) ==
    {us \in [BurstParams -> RandHalves] : \A k \in BurstParams : ~params[k].rand => us[k] = 0}
\* partial parameter sets given to ThunderGenerator.setParams
ThunderUpdates ==
    {[burstCount |-> bc] : bc \in BurstCounts} \cup {[reverbDuration |-> RandParam(40, FALSE, 5)]}
\* partial parameter sets given to the controller's entry points
CtlThunderUpdates ==
    {[filterFreq |-> RandParam(500, FALSE, 500)],
     [reverbDuration |-> RandParam(40, FALSE, 5)]}

V2Osc(o, f) ==
    [ minPitch |-> OscParam(300, o, 100, f), maxPitch |-> OscParam(800, o, 500, f),
      reverbLevel |-> OscParam(40, o, 20, f), panRange |-> OscParam(100, o, 50, f),
      filterFreq |-> OscParam(4000, o, 1000, f) ]

V2ThunderParams(bc) ==
    [ delayBetweenThunders |-> [min |-> 100, max |-> 300],
      burstCount |-> bc, crackleAmount |-> RandParam(10, FALSE, 5) ]

Init ==
    /\ sys \in Systems
    /\ clock = 0
    /\ lastOp = "other"
    /\ insts = V1Insts_constructor
    /\ hist = [everStarted |-> FALSE, elapsed |-> 0, drops |-> 0, rateHeld |-> FALSE,
               dropAfterStop |-> FALSE, lastSet |-> [g \in LevelGains |-> -1]]
    /\ ctl \in IF sys = "V1CtlThunder"
                 THEN {[V1Ctl_constructor([min |-> 0, max |-> 0]) EXCEPT
                          !.rainOn = FALSE,
                          !.thunderParams.burstCount = RandParam(20, FALSE, 10)]}
                 ELSE {V1Ctl_constructor(d) : d \in ThunderDelays}
    /\ rain \in IF sys = "V1Rain"
                  THEN {V1Rain_connect(
                            V1Rain_constructor(cs, [V1_defaultRainParams EXCEPT !.dropRate = rate]),
                            Destination) :
                            cs \in {"running", "suspended"}, rate \in V1DropRates}
                  ELSE IF sys = "Offline"
                    THEN {V1Rain_connect(
                              V1Rain_constructor("offline",
                                                 [V1_defaultRainParams EXCEPT !.dropRate = 10,
                                                                              !.dropDecayTime = d]),
                              Destination) : d \in DecayTimes}
                    ELSE {V1Rain_connect(
                              V1Rain_constructor("running",
                                                 [V1_defaultRainParams EXCEPT !.dropRate = 10]),
                              Destination)}
    /\ thunder \in IF sys = "V1Thunder"
                     THEN {V1Thunder_constructor([V1_defaultThunderParams EXCEPT !.burstCount = bc]) : bc \in BurstCounts}
                     ELSE {V1Thunder_constructor(ctl.thunderParams)}
    /\ rain2 \in IF sys = "V2Rain"
                   THEN {[V2Rain_constructor(rate, V2Osc(o, f)) EXCEPT !.params.decayTime = d] :
                            rate \in V1DropRates, o \in BOOLEAN, f \in V2OscFreqs, d \in DecayTimes}
                   ELSE {V2Rain_constructor(10, V2Osc(FALSE, 0))}
    /\ thunder2 \in IF sys = "V2Thunder"
                      THEN {V2Thunder_constructor(V2ThunderParams(bc)) : bc \in BurstCounts}
                      ELSE IF sys = "V2Ctl"
                        THEN {V2Thunder_constructor(
                                 [V2ThunderParams(RandParam(30, FALSE, 10)) EXCEPT
                                    !.delayBetweenThunders = d]) : d \in Ctl2ThunderDelays}
                        ELSE {V2Thunder_constructor(V2ThunderParams(RandParam(30, FALSE, 10)))}

    /\ IF sys = "Wav"
         THEN \E n \in ChannelCounts, len \in 1..MaxFrames :
                wav \in {[buffer |-> b, encoded |-> FALSE, interleaved |-> <<>>, bytes |-> <<>>] :
                            b \in WavBuffers(n, len)}
         ELSE wav = [buffer |-> AudioBuffer(<<(<<0>>)>>, 44100), encoded |-> FALSE,
                     interleaved |-> <<>>, bytes |-> <<>>]
    /\ offlineCtx \in {OfflineAudioContext(length) : length \in RenderDurations}
    /\ ctl2 \in IF sys = "V2Ctl"
                  THEN {V2Ctl_constructor(rainOn, thunderOn) : rainOn \in BOOLEAN, thunderOn \in BOOLEAN}
                  ELSE {V2Ctl_constructor(TRUE, TRUE)}

V1RainSys == sys \in {"V1Rain", "V1Ctl", "Offline"}

\* history: "stop" after a stop(), "stop2" after a stop() that followed a
\* stop(), "destroy" after a destroy()
StopOps == {"stop", "stop2"}
StopAfter(op) == IF op \in StopOps THEN "stop2" ELSE "stop"
\* the systems in which the timers armed by a strike run
V1ThunderSys == sys \in {"V1Thunder", "V1CtlThunder"}
V1CtlSys == sys \in {"V1Ctl", "V1CtlThunder"}
\* the systems in which a controller's strike timer runs
V1StrikeSys == sys \in {"V1Ctl", "V1CtlThunder", "Offline"}

\* room for the timers start() arms
V1Rain_canArm(n) == Cardinality(rain.intervals) + n <= MaxTimers

\* the generator called back-to-back (start, stop, level setters), no timer
\* of it coming due in between
V1RainCalls == sys \in {"V1Rain", "V1Levels"}

\* history of a call of start() or of its continuation: a run begins when the
\* body of start() has run
HistStart(r, r1) ==
    IF r1.running /\ (~r.running \/ r1.startPending < r.startPending)
      THEN [everStarted |-> TRUE, elapsed |-> 0, drops |-> 0, rateHeld |-> TRUE,
            dropAfterStop |-> FALSE, lastSet |-> hist.lastSet]
      ELSE [hist EXCEPT !.everStarted = TRUE]

(* V1 RainGenerator, called directly *)
RainStart ==
    /\ V1RainCalls
    /\ V1Rain_canArm(IF sys = "V1Levels" THEN 0 ELSE 2)
    /\ rain.startPending < MaxPending
    /\ rain' = V1Rain_start(rain)
    /\ hist' = HistStart(rain, rain')
    /\ lastOp' = "other"
    /\ UNCHANGED <<sys, insts, wav, offlineCtx, ctl2, thunder, ctl, rain2, thunder2, clock>>

RainResumed ==
    /\ sys = "V1Rain"
    /\ rain.startPending > 0
    /\ V1Rain_canArm(2)
    /\ rain' = V1Rain_resumed(rain)
    /\ hist' = HistStart(rain, rain')
    /\ lastOp' = "other"
    /\ UNCHANGED <<sys, insts, wav, offlineCtx, ctl2, thunder, ctl, rain2, thunder2, clock>>

RainStop ==
    /\ V1RainCalls
    /\ rain' = V1Rain_stop(rain)
    /\ lastOp' = StopAfter(lastOp)
    /\ UNCHANGED <<sys, insts, wav, offlineCtx, ctl2, thunder, ctl, rain2, thunder2, clock, hist>>

RainDestroy ==
    /\ sys = "V1Rain"
    /\ rain' = V1Rain_destroy(rain)
    /\ lastOp' = "destroy"
    /\ UNCHANGED <<sys, insts, wav, offlineCtx, ctl2, thunder, ctl, rain2, thunder2, clock, hist>>

RainSetDropRate ==
    /\ sys = "V1Rain"
    /\ \E param \in V1DropRates :
          /\ Cardinality(V1Rain_setDropRate(rain, param).intervals) <= MaxTimers
          /\ rain' = V1Rain_setDropRate(rain, param)
    /\ hist' = [hist EXCEPT !.rateHeld = FALSE]
    /\ lastOp' = "other"
    /\ UNCHANGED <<sys, insts, wav, offlineCtx, ctl2, thunder, ctl, rain2, thunder2, clock>>

\* setParams({dropRate}), which NoiseDController.updateRainParams calls too
RainSetParams ==
    /\ sys = "V1Rain"
    /\ \E param \in V1DropRates :
          rain' = V1Rain_setParams(rain, [dropRate |-> param])
    /\ hist' = [hist EXCEPT !.rateHeld = FALSE]
    /\ lastOp' = "other"
    /\ UNCHANGED <<sys, insts, wav, offlineCtx, ctl2, thunder, ctl, rain2, thunder2, clock>>

RainSetNoiseFilterFreq ==
    /\ sys = "V1Rain"
    /\ \E param \in V1OscInputs : rain' = V1Rain_setNoiseFilterFreq(rain, param)
    /\ lastOp' = "other"
    /\ UNCHANGED <<sys, insts, wav, offlineCtx, ctl2, thunder, ctl, rain2, thunder2, clock, hist>>

RainSetNoiseType ==
    /\ sys = "V1Rain"
    /\ rain' = V1Rain_setNoiseType(rain)
    /\ lastOp' = "other"
    /\ UNCHANGED <<sys, insts, wav, offlineCtx, ctl2, thunder, ctl, rain2, thunder2, clock, hist>>

\* history: lastSet is the level last set on a gain while running (-1: none)
RainSetVolume ==
    /\ V1RainCalls
    /\ \E value \in Levels :
          /\ rain' = V1Rain_setVolume(rain, value)
          /\ hist' = IF sys = "V1Levels" /\ rain.running
                       THEN [hist EXCEPT !.lastSet.output = value]
                       ELSE hist
    /\ lastOp' = "other"
    /\ UNCHANGED <<sys, insts, wav, offlineCtx, ctl2, thunder, ctl, rain2, thunder2, clock>>

\* setParams({eqGains}), which NoiseDController.setRainEqGain and
\* updateRainParams call too
RainSetEqGains ==
    /\ sys = "V1Levels"
    /\ \E eqGains \in EqGainArrays :
          rain' = V1Rain_setParams(rain, [eqGains |-> eqGains])
    /\ lastOp' = "other"
    /\ UNCHANGED <<sys, insts, wav, offlineCtx, ctl2, thunder, ctl, rain2, thunder2, clock, hist>>

\* setNoiseLevel, setDropDryLevel, setDropWetLevel
RainSetLevel ==
    /\ sys = "V1Levels"
    /\ \E g \in LevelGains \ {"output"}, value \in Levels :
          /\ rain' = CASE g = "dryGain" -> V1Rain_setNoiseLevel(rain, value)
                        [] g = "dryDropGainNode" -> V1Rain_setDropDryLevel(rain, value)
                        [] OTHER -> V1Rain_setDropWetLevel(rain, value)
          /\ hist' = IF rain.running THEN [hist EXCEPT !.lastSet[g] = value] ELSE hist
    /\ lastOp' = "other"
    /\ UNCHANGED <<sys, insts, wav, offlineCtx, ctl2, thunder, ctl, rain2, thunder2, clock>>

\* A due interval fires.  The callbacks of intervals due together are the same
\* playDrop and commute, so they are taken in one order.
RainIntervalFires ==
    /\ V1RainSys
    /\ \E t \in rain.intervals :
          /\ t.remaining = 0
          /\ \A o \in rain.intervals : o.remaining = 0 => t.id <= o.id
          /\ rain' = V1Rain_intervalFires(rain, t)
    /\ hist' = IF sys = "V1Rain"
                 THEN [hist EXCEPT !.drops = @ + 1,
                                   !.dropAfterStop = (~rain.running /\ rain.startPending = 0)]
                 ELSE hist
    /\ offlineCtx' = IF sys = "Offline" THEN Offline_drop(offlineCtx) ELSE offlineCtx
    /\ lastOp' = "other"
    /\ UNCHANGED <<sys, insts, wav, ctl2, thunder, ctl, rain2, thunder2, clock>>

\* Timer time passes: no timer is overrun.
Advance ==
    /\ V1RainSys
    /\ \E d \in AdvanceSteps :
          /\ clock + d <= MaxTime
          /\ \A t \in rain.intervals \cup ctl.timeouts : d <= t.remaining
          /\ clock' = clock + d
          /\ rain' = V1Rain_advance(rain, d)
          /\ ctl' = V1Ctl_advance(ctl, d)
          /\ hist' = IF sys = "V1Rain" /\ rain.running
                       THEN [hist EXCEPT !.elapsed = @ + d] ELSE hist
          /\ offlineCtx' = IF sys = "Offline" /\ offlineCtx.started
                             THEN [offlineCtx EXCEPT !.elapsed = @ + d] ELSE offlineCtx
    /\ lastOp' = "other"
    /\ UNCHANGED <<sys, insts, wav, ctl2, thunder, rain2, thunder2>>

(* V1 ThunderGenerator *)
ThunderTrigger ==
    /\ sys = "V1Thunder"
    /\ Len(thunder.strikes) < MaxStrikes
    /\ \E u \in StrikeDraws : thunder' = V1Thunder_triggerThunder(thunder, u)
    /\ lastOp' = "other"
    /\ UNCHANGED <<sys, insts, wav, offlineCtx, ctl2, rain, ctl, rain2, thunder2, clock, hist>>

ThunderSetParams ==
    /\ sys = "V1Thunder"
    /\ \E newParams \in ThunderUpdates : thunder' = V1Thunder_setParams(thunder, newParams)
    /\ lastOp' = "other"
    /\ UNCHANGED <<sys, insts, wav, offlineCtx, ctl2, rain, ctl, rain2, thunder2, clock, hist>>

ThunderDelayFires ==
    /\ V1ThunderSys
    /\ \E i \in DOMAIN thunder.strikes :
          /\ ~thunder.strikes[i].fired
          /\ thunder' = V1Thunder_strikeBody(thunder, i)
    /\ lastOp' = "other"
    /\ UNCHANGED <<sys, insts, wav, offlineCtx, ctl2, rain, ctl, rain2, thunder2, clock, hist>>

ThunderBurstFires ==
    /\ V1ThunderSys
    /\ \E i \in DOMAIN thunder.strikes, us \in BurstDraws(thunder.params) :
          /\ thunder.strikes[i].pending > 0
          /\ thunder' = V1Thunder_playSingleBurst(thunder, i, us)
    /\ lastOp' = "other"
    /\ UNCHANGED <<sys, insts, wav, offlineCtx, ctl2, rain, ctl, rain2, thunder2, clock, hist>>

ThunderSetGeneratedReverb ==
    /\ sys = "V1CtlThunder"
    /\ Len(thunder.buffers) < MaxBuffers
    /\ \E uDuration \in NoDraw, uDecay \in NoDraw :
          thunder' = V1Thunder_setGeneratedReverb(thunder, uDuration, uDecay)
    /\ lastOp' = "other"
    /\ UNCHANGED <<sys, insts, wav, offlineCtx, ctl2, rain, ctl, rain2, thunder2, clock, hist>>

ThunderDestroy ==
    /\ sys = "V1CtlThunder"
    /\ ~thunder.destroyed
    /\ thunder' = V1Thunder_destroy(thunder)
    /\ lastOp' = "other"
    /\ UNCHANGED <<sys, insts, wav, offlineCtx, ctl2, rain, ctl, rain2, thunder2, clock, hist>>

(* V1 NoiseDController *)
CtlStart ==
    /\ V1CtlSys
    /\ V1Rain_canArm(2)
    /\ rain.startPending < MaxPending
    /\ Cardinality(ctl.timeouts) < MaxTimers
    /\ \E u \in RandHalves :
          IF ctl.running
            THEN UNCHANGED <<ctl, rain>>
            ELSE /\ ctl' = V1Ctl_scheduleThunder([ctl EXCEPT !.running = TRUE], u)
                 /\ rain' = IF ctl.rainOn THEN V1Rain_start(rain) ELSE rain
    /\ lastOp' = "other"
    /\ UNCHANGED <<sys, insts, wav, offlineCtx, ctl2, thunder, rain2, thunder2, clock, hist>>

CtlStop ==
    /\ V1CtlSys
    /\ ctl' = V1Ctl_stop(ctl)
    /\ rain' = V1Rain_stop(rain)
    /\ thunder' = [thunder EXCEPT !.halted = Len(thunder.strikes)]
    /\ lastOp' = StopAfter(lastOp)
    /\ UNCHANGED <<sys, insts, wav, offlineCtx, ctl2, rain2, thunder2, clock, hist>>

CtlStartRain ==
    /\ sys = "V1Ctl"
    /\ V1Rain_canArm(2)
    /\ rain.startPending < MaxPending
    /\ ctl' = [ctl EXCEPT !.rainOn = TRUE]
    /\ rain' = V1Rain_start(rain)
    /\ lastOp' = "other"
    /\ UNCHANGED <<sys, insts, wav, offlineCtx, ctl2, thunder, rain2, thunder2, clock, hist>>

CtlStopRain ==
    /\ sys = "V1Ctl"
    /\ ctl' = [ctl EXCEPT !.rainOn = FALSE]
    /\ rain' = V1Rain_stop(rain)
    /\ lastOp' = "other"
    /\ UNCHANGED <<sys, insts, wav, offlineCtx, ctl2, thunder, rain2, thunder2, clock, hist>>

CtlStartThunder ==
    /\ sys = "V1Ctl"
    /\ Cardinality(ctl.timeouts) < MaxTimers
    /\ \E u \in RandHalves : ctl' = V1Ctl_startThunder(ctl, u)
    /\ lastOp' = "other"
    /\ UNCHANGED <<sys, insts, wav, offlineCtx, ctl2, rain, thunder, rain2, thunder2, clock, hist>>

CtlStopThunder ==
    /\ sys = "V1Ctl"
    /\ ctl' = V1Ctl_stopThunder(ctl)
    /\ lastOp' = "other"
    /\ UNCHANGED <<sys, insts, wav, offlineCtx, ctl2, rain, thunder, rain2, thunder2, clock, hist>>

CtlUpdateThunderParams ==
    /\ sys = "V1CtlThunder"
    /\ \E newThunderParams \in CtlThunderUpdates :
          LET r == V1Ctl_updateThunderParams(ctl, thunder, newThunderParams)
          IN  ctl' = r.ctl /\ thunder' = r.thunder
    /\ lastOp' = "other"
    /\ UNCHANGED <<sys, insts, wav, offlineCtx, ctl2, rain, rain2, thunder2, clock, hist>>

CtlSetThunderParams ==
    /\ sys = "V1CtlThunder"
    /\ Len(thunder.buffers) < MaxBuffers
    /\ \E newParams \in CtlThunderUpdates, uDuration \in NoDraw, uDecay \in NoDraw :
          LET r == V1Ctl_setThunderParams(ctl, thunder, newParams, uDuration, uDecay)
          IN  ctl' = r.ctl /\ thunder' = r.thunder
    /\ lastOp' = "other"
    /\ UNCHANGED <<sys, insts, wav, offlineCtx, ctl2, rain, rain2, thunder2, clock, hist>>

\* the window.setTimeout callback of scheduleThunder: triggerThunder(), then
\* scheduleThunder() again
CtlStrikeTimerFires ==
    /\ V1StrikeSys
    /\ Len(thunder.strikes) < MaxStrikes
    /\ \E t \in ctl.timeouts, u \in StrikeDraws, uDelay \in RandHalves :
          /\ t.remaining = 0
          /\ thunder' = V1Thunder_triggerThunder(thunder, u)
          /\ ctl' = V1Ctl_strikeTimer(ctl, t, uDelay)
    /\ offlineCtx' = IF sys = "Offline" THEN Offline_strike(offlineCtx) ELSE offlineCtx
    /\ lastOp' = "other"
    /\ UNCHANGED <<sys, insts, wav, ctl2, rain, rain2, thunder2, clock, hist>>

(* V1 NoiseDController.renderToFile *)
RenderToFile ==
    /\ sys = "Offline"
    /\ ~offlineCtx.started
    /\ \E u \in RandHalves :
          LET r == V1Ctl_renderToFile(ctl, rain, offlineCtx, u)
          IN  ctl' = r.ctl /\ rain' = r.rain /\ offlineCtx' = r.offlineCtx
    /\ lastOp' = "other"
    /\ UNCHANGED <<sys, insts, wav, ctl2, thunder, rain2, thunder2, clock, hist>>

OfflineRenders ==
    /\ sys = "Offline"
    /\ offlineCtx.started
    /\ offlineCtx.currentTime < offlineCtx.length
    /\ \E q \in RenderSteps : offlineCtx' = Offline_render(offlineCtx, q)
    /\ lastOp' = "other"
    /\ UNCHANGED <<sys, insts, wav, ctl2, rain, thunder, ctl, rain2, thunder2, clock, hist>>

OfflineRenderingComplete ==
    /\ sys = "Offline"
    /\ offlineCtx.started
    /\ offlineCtx.currentTime = offlineCtx.length
    /\ offlineCtx.result = "none"
    /\ offlineCtx' = Offline_complete(offlineCtx)
    /\ lastOp' = "other"
    /\ UNCHANGED <<sys, insts, wav, ctl2, rain, thunder, ctl, rain2, thunder2, clock, hist>>

(* V2 RainGenerator *)
Rain2Start ==
    /\ sys = "V2Rain"
    /\ Cardinality(rain2.sources) < MaxTimers
    /\ rain2' = V2Rain_start(rain2)
    /\ lastOp' = "other"
    /\ UNCHANGED <<sys, insts, wav, offlineCtx, ctl2, rain, thunder, ctl, thunder2, clock, hist>>

Rain2Stop ==
    /\ sys = "V2Rain"
    /\ rain2' = V2Rain_stop(rain2)
    /\ lastOp' = StopAfter(lastOp)
    /\ UNCHANGED <<sys, insts, wav, offlineCtx, ctl2, rain, thunder, ctl, thunder2, clock, hist>>

Rain2Destroy ==
    /\ sys = "V2Rain"
    /\ rain2' = V2Rain_destroy(rain2)
    /\ lastOp' = "destroy"
    /\ UNCHANGED <<sys, insts, wav, offlineCtx, ctl2, rain, thunder, ctl, thunder2, clock, hist>>

Rain2Tick ==
    /\ sys = "V2Rain"
    /\ \E dt \in TickSteps :
          /\ clock + dt <= MaxTime
          /\ clock' = clock + dt
          /\ rain2' = V2Rain_tick(rain2, dt)
    /\ lastOp' = "other"
    /\ UNCHANGED <<sys, insts, wav, offlineCtx, ctl2, rain, thunder, ctl, thunder2, hist>>

(* V2 ThunderGenerator *)
Thunder2Start ==
    /\ sys = "V2Thunder"
    /\ thunder2' = V2Thunder_start(thunder2)
    /\ lastOp' = "other"
    /\ UNCHANGED <<sys, insts, wav, offlineCtx, ctl2, rain, thunder, ctl, rain2, clock, hist>>

Thunder2Stop ==
    /\ sys = "V2Thunder"
    /\ thunder2' = V2Thunder_stop(thunder2)
    /\ lastOp' = StopAfter(lastOp)
    /\ UNCHANGED <<sys, insts, wav, offlineCtx, ctl2, rain, thunder, ctl, rain2, clock, hist>>

Thunder2Tick ==
    /\ sys = "V2Thunder"
    /\ \E dt \in TickSteps, uDelay \in RandHalves, uCount \in RandHalves, uCrackle \in RandHalves :
          /\ clock + dt <= MaxTime
          /\ clock' = clock + dt
          /\ thunder2' = V2Thunder_tick(thunder2, dt, uDelay, uCount, uCrackle)
    /\ lastOp' = "other"
    /\ UNCHANGED <<sys, insts, wav, offlineCtx, ctl2, rain, thunder, ctl, rain2, hist>>

(* V2 NoiseDController *)
Ctl2Start ==
    /\ sys = "V2Ctl"
    /\ Cardinality(rain2.sources) < MaxTimers
    /\ LET r == V2Ctl_start(ctl2, rain2, thunder2)
       IN  rain2' = r.rain /\ thunder2' = r.thunder
    /\ lastOp' = "other"
    /\ UNCHANGED <<sys, insts, wav, offlineCtx, ctl2, rain, thunder, ctl, clock, hist>>

Ctl2Stop ==
    /\ sys = "V2Ctl"
    /\ LET r == V2Ctl_stop(ctl2, rain2, thunder2)
       IN  rain2' = r.rain /\ thunder2' = r.thunder
    /\ lastOp' = StopAfter(lastOp)
    /\ UNCHANGED <<sys, insts, wav, offlineCtx, ctl2, rain, thunder, ctl, clock, hist>>

Ctl2Tick ==
    /\ sys = "V2Ctl"
    /\ \E dt \in Ctl2TickSteps, uDelay \in RandHalves, uCount \in RandHalves, uCrackle \in RandHalves :
          /\ clock + dt <= MaxTime
          /\ clock' = clock + dt
          /\ LET r == V2Ctl_tick(ctl2, rain2, thunder2, dt, uDelay, uCount, uCrackle)
             IN  rain2' = r.rain /\ thunder2' = r.thunder
    /\ lastOp' = "other"
    /\ UNCHANGED <<sys, insts, wav, offlineCtx, ctl2, rain, thunder, ctl, hist>>

(* V1 NoiseDController instances *)

InstStartRain ==
    /\ sys = "V1Insts"
    /\ \E i \in Instances :
          insts' = [insts EXCEPT !.rainParams[insts.refs[i].rainParams].on = TRUE, !.caller = i]
    /\ lastOp' = "other"
    /\ UNCHANGED <<sys, wav, offlineCtx, ctl2, rain, thunder, ctl, rain2, thunder2, clock, hist>>

InstStopRain ==
    /\ sys = "V1Insts"
    /\ \E i \in Instances :
          insts' = [insts EXCEPT !.rainParams[insts.refs[i].rainParams].on = FALSE, !.caller = i]
    /\ lastOp' = "other"
    /\ UNCHANGED <<sys, wav, offlineCtx, ctl2, rain, thunder, ctl, rain2, thunder2, clock, hist>>

InstStopThunder ==
    /\ sys = "V1Insts"
    /\ \E i \in Instances :
          insts' = [insts EXCEPT !.thunderParams[insts.refs[i].thunderParams].on = FALSE,
                                 !.caller = i]
    /\ lastOp' = "other"
    /\ UNCHANGED <<sys, wav, offlineCtx, ctl2, rain, thunder, ctl, rain2, thunder2, clock, hist>>

InstSetRainVolume ==
    /\ sys = "V1Insts"
    /\ \E i \in Instances, value \in Levels :
          insts' = [insts EXCEPT !.rainParams[insts.refs[i].rainParams].volume = value,
                                 !.caller = i]
    /\ lastOp' = "other"
    /\ UNCHANGED <<sys, wav, offlineCtx, ctl2, rain, thunder, ctl, rain2, thunder2, clock, hist>>

\* setEqGain(index, value): returns at once for an index outside the bands
InstSetEqGain ==
    /\ sys = "V1Insts"
    /\ \E i \in Instances, index \in EqIndexes, value \in EqGainInputs :
          insts' = IF index \notin 0..(V1RainEqBands - 1)
                     THEN [insts EXCEPT !.caller = i]
                     ELSE [insts EXCEPT !.eqGains[insts.refs[i].eqGains][index + 1] = value,
                                        !.caller = i]
    /\ lastOp' = "other"
    /\ UNCHANGED <<sys, wav, offlineCtx, ctl2, rain, thunder, ctl, rain2, thunder2, clock, hist>>

\* updateRainParams({volume}): this.params.rainParams becomes a new object
InstUpdateRainParams ==
    /\ sys = "V1Insts"
    /\ \E i \in Instances, value \in Levels :
          insts' = [insts EXCEPT
                      !.rainParams[i] = [insts.rainParams[insts.refs[i].rainParams]
                                           EXCEPT !.volume = value],
                      !.refs[i].rainParams = i,
                      !.caller = i]
    /\ lastOp' = "other"
    /\ UNCHANGED <<sys, wav, offlineCtx, ctl2, rain, thunder, ctl, rain2, thunder2, clock, hist>>

(* _bufferToWavBlob *)

BufferToWavBlob ==
    /\ sys = "Wav"
    /\ ~wav.encoded
    /\ LET blob == Wav_bufferToWavBlob(wav.buffer)
       IN  wav' = [wav EXCEPT !.encoded = TRUE, !.interleaved = blob.interleaved,
                              !.bytes = blob.bytes]
    /\ lastOp' = "other"
    /\ UNCHANGED <<sys, insts, offlineCtx, ctl2, rain, thunder, ctl, rain2, thunder2, clock, hist>>

Next ==
    \/ RainStart \/ RainResumed \/ RainStop \/ RainDestroy \/ RainSetDropRate
    \/ RainSetParams \/ RainSetLevel \/ RainSetEqGains
    \/ RainSetNoiseFilterFreq \/ RainSetNoiseType \/ RainSetVolume \/ RainIntervalFires \/ Advance
    \/ ThunderTrigger \/ ThunderSetParams \/ ThunderDelayFires \/ ThunderBurstFires
    \/ ThunderSetGeneratedReverb \/ ThunderDestroy
    \/ CtlStart \/ CtlStop \/ CtlStartRain \/ CtlStopRain
    \/ CtlStartThunder \/ CtlStopThunder \/ CtlStrikeTimerFires
    \/ CtlUpdateThunderParams \/ CtlSetThunderParams
    \/ Rain2Start \/ Rain2Stop \/ Rain2Destroy \/ Rain2Tick
    \/ Thunder2Start \/ Thunder2Stop \/ Thunder2Tick
    \/ Ctl2Start \/ Ctl2Stop \/ Ctl2Tick
    \/ BufferToWavBlob
    \/ InstStartRain \/ InstStopRain \/ InstStopThunder \/ InstSetRainVolume
    \/ InstSetEqGain \/ InstUpdateRainParams
    \/ RenderToFile \/ OfflineRenders \/ OfflineRenderingComplete

Spec == Init /\ [][Next]_vars

\* The host's event loop: time passes, and the callback of a timer that is due
\* is run.
TimersRun ==
    /\ WF_vars(Advance)
    /\ WF_vars(CtlStrikeTimerFires)
    /\ WF_vars(RainIntervalFires)

\* The V1 controller with its generators, under the event loop: the calls of
\* the controller and the callbacks of its timers.
CtlInit == Init /\ sys = "V1Ctl"

CtlNext ==
    \/ CtlStart \/ CtlStop \/ CtlStartRain \/ CtlStopRain
    \/ CtlStartThunder \/ CtlStopThunder \/ CtlStrikeTimerFires
    \/ RainIntervalFires \/ Advance

LiveSpec == CtlInit /\ [][CtlNext]_vars /\ TimersRun

---------------------------------------------------------------------------
(* Claims *)

Abs(x) == IF x < 0 THEN -x ELSE x

ConstructedGain ==
    [ output |-> 100, noiseGainNode |-> 100, dropGainNode |-> 100,
      dryDropGainNode |-> 100, dryGain |-> 100, wetGain |-> 100 ]

\* C1: while the V1 controller is stopped (after any calls that end with stop(),
\* until the next start()), no thunder strike timer is armed, so none can fire
\* and invoke triggerThunder().
C1_NoStrikeTimerWhileStopped ==
    (sys = "V1Ctl" /\ ~ctl.running) => ctl.timeouts = {}

\* C2: no drop voice is created by the V1 RainGenerator while it is stopped
\* (stop() has returned and start() has not been called again).
C2_NoDropAfterStop ==
    sys = "V1Rain" => ~hist.dropAfterStop

\* C3: a stop() that directly follows a stop() does not throw and changes
\* nothing, in the V1 RainGenerator, the V1 NoiseDController and the V2
\* RainGenerator and ThunderGenerator.
C3_SecondStopChangesNothing ==
    [][ lastOp' = "stop2" =>
          /\ <<rain, thunder, ctl, rain2, thunder2, clock, hist, wav, offlineCtx, ctl2, insts>>'
                = <<rain, thunder, ctl, rain2, thunder2, clock, hist, wav, offlineCtx, ctl2, insts>>
          /\ ~rain'.threw /\ ~rain2'.threw ]_vars

C3_Witness ==
    /\ sys = "V1Rain" /\ lastOp = "stop2" /\ hist.everStarted
    /\ rain.intervals # {} /\ ~rain.threw

\* C4: after stop() on a generator that was never started, nothing
\* has failed and the running flag, timers, noise source, persistent gain
\* levels and accumulators are as constructed (of the gains, those that no
\* setter called before the stop() has written: all but the output gain).
C4_StopBeforeStartLeavesConstructed ==
    /\ (sys = "V1Rain" /\ ~hist.everStarted /\ lastOp \in StopOps) =>
          /\ ~rain.threw /\ ~rain.running /\ rain.noiseNode = NULL
          /\ rain.dropInterval = NULL /\ rain.intervals = {} /\ rain.lfoMap = {}
          /\ \A g \in DOMAIN rain.gain \ {"output"} : rain.gain[g] = ConstructedGain[g]
    /\ (sys = "V2Rain" /\ ~rain2.everStarted /\ lastOp \in StopOps) =>
          /\ ~rain2.threw /\ rain2.noiseSource = NULL /\ rain2.sources = {}
          /\ rain2.dropInterval = 0
    /\ (sys = "V2Thunder" /\ ~thunder2.everStarted /\ lastOp \in StopOps) =>
          thunder2.thunderTimer = 0

\* C5: with the drop rate R held constant since start(), the number of drops
\* fired in the elapsed time D since start() is within 1 of floor(D * R).
C5_DropCountFollowsRate ==
    /\ (sys = "V1Rain" /\ rain.running /\ hist.rateHeld) =>
          Abs(hist.drops - (hist.elapsed * rain.params.dropRate) \div MsPerSecond) <= 1
    /\ (sys = "V2Rain" /\ rain2.started) =>
          Abs(rain2.sinceStart.drops
                - (rain2.sinceStart.elapsed * rain2.params.rate) \div MsPerSecond) <= 1

\* C6: a fired strike whose burstCount parameter was {value: 3, rand: false}
\* has exactly one rumble voice and three burst voices, created or on their
\* armed timeouts (V1), created at once (V2).
C6_ThreeBurstsOneRumble ==
    /\ \A i \in DOMAIN thunder.strikes :
          LET s == thunder.strikes[i]
          IN  (s.fired /\ ~s.param.rand /\ s.param.value = 30) =>
                 (s.rumble = 1 /\ s.bursts + s.pending = 3)
    /\ LET s == thunder2.lastStrike
       IN  (s.n > 0 /\ ~s.param.rand /\ s.param.value = 30) =>
              (s.rumbles = 1 /\ s.bursts = 3)

C6_Witness ==
    /\ sys = "V1Thunder"
    /\ \E i \in DOMAIN thunder.strikes :
          LET s == thunder.strikes[i]
          IN  s.fired /\ ~s.param.rand /\ s.param.value = 30 /\ s.pending = 0 /\ s.bursts = 3

\* C7: a fired strike whose burstCount (the evaluated one, or the configured
\* value when rand is off) is less than 1 has no burst voice and one rumble.
C7_NoBurstBelowOne ==
    /\ \A i \in DOMAIN thunder.strikes :
          LET s == thunder.strikes[i]
          IN  (s.fired /\ (s.burstCount < 10 \/ (~s.param.rand /\ s.param.value < 10))) =>
                 (s.rumble = 1 /\ s.bursts + s.pending = 0)
    /\ LET s == thunder2.lastStrike
       IN  (s.n > 0 /\ (s.count < 10 \/ (~s.param.rand /\ s.param.value < 10))) =>
              (s.rumbles = 1 /\ s.bursts = 0)

\* C8: for an OscParam configured with osc = false, the value the generator
\* consumes (drop pitch and pan inputs, noise filter frequency) is the
\* configured value, after any ticks (V2) and start()/setter calls (V1).
C8_OscOffConsumesValue ==
    /\ sys = "V2Rain" =>
          /\ \A k \in DOMAIN rain2.configured :
                ~rain2.configured[k].osc =>
                    rain2.params.osc[k].value = rain2.configured[k].value
          /\ (rain2.started /\ ~rain2.configured.filterFreq.osc) =>
                rain2.noiseFilterFrequency = rain2.configured.filterFreq.value
          /\ (rain2.lastDrop.maxPitch # 0 /\ ~rain2.configured.minPitch.osc) =>
                rain2.lastDrop.minPitch = rain2.configured.minPitch.value
    /\ (sys = "V1Rain" /\ rain.running /\ ~rain.params.noiseFilterFreq.osc) =>
          /\ rain.noiseFilterFrequency = rain.params.noiseFilterFreq.value
          /\ "noiseFilterFreq" \notin rain.lfoMap

\* C9: a RandParam with rand = false evaluates to exactly its value, 0 included.
C9_RandOffEvaluatesToValue ==
    /\ \A i \in DOMAIN thunder.strikes :
          LET s == thunder.strikes[i]
          IN  ~s.param.rand => s.burstCount = s.param.value
    /\ LET s == thunder2.lastStrike
       IN  (s.n > 0 /\ ~s.param.rand) => s.count = s.param.value

\* C10: a RandParam with rand = true and dist >= 0 evaluates within
\* [value - dist, value + dist].
C10_RandWithinDist ==
    /\ \A i \in DOMAIN thunder.strikes :
          LET s == thunder.strikes[i]
          IN  (s.param.rand /\ s.param.dist >= 0) =>
                 (s.param.value - s.param.dist <= s.burstCount
                    /\ s.burstCount <= s.param.value + s.param.dist)
    /\ LET s == thunder2.lastStrike
       IN  (s.n > 0 /\ s.param.rand /\ s.param.dist >= 0) =>
              (s.param.value - s.param.dist <= s.count
                 /\ s.count <= s.param.value + s.param.dist)

\* reading a produced file back: the unsigned 32-bit little-endian field at
\* byte offset off, and the signed 16-bit little-endian sample at data index i
ReadUint32LE(bytes, off) ==
    bytes[off + 1] + 256 * bytes[off + 2] + 65536 * bytes[off + 3] + 16777216 * bytes[off + 4]
ReadInt16LE(bytes, i) ==
    LET u == bytes[HeaderSize + 2 * i + 1] + 256 * bytes[HeaderSize + 2 * i + 2]
    IN  IF u >= 32768 THEN u - 65536 ELSE u

\* C11: in the file produced for an N-channel buffer, for every frame f and
\* channel c the 16-bit sample at data index f*N + c is the conversion of
\* channel c's sample at frame f.
C11_DataInterleaved ==
    wav.encoded =>
        \A f \in 0..(wav.buffer.length - 1), c \in 0..(wav.buffer.numberOfChannels - 1) :
            ReadInt16LE(wav.bytes, f * wav.buffer.numberOfChannels + c)
                = Wav_convertSample(wav.buffer.channels[c + 1][f + 1])

\* C12: an all-zero buffer gives a data chunk of exactly length*channels*2
\* zero bytes; every sample of 1.0 or more that the encoder converts is
\* written as FF 7F (0x7FFF little-endian) and every sample of -1.0 or less
\* as 00 80 (0x8000 little-endian).
C12_SampleConversion ==
    wav.encoded =>
        LET n == wav.buffer.length * wav.buffer.numberOfChannels
        IN  /\ Len(wav.interleaved) = n
            /\ (\A c \in 1..wav.buffer.numberOfChannels, f \in 1..wav.buffer.length :
                    wav.buffer.channels[c][f] = 0) =>
                  /\ Len(wav.bytes) - HeaderSize = n * 2
                  /\ \A k \in (HeaderSize + 1)..Len(wav.bytes) : wav.bytes[k] = 0
            /\ \A i \in 0..(n - 1) :
                  LET lo == wav.bytes[HeaderSize + 2 * i + 1]
                      hi == wav.bytes[HeaderSize + 2 * i + 2]
                  IN  /\ wav.interleaved[i + 1] >= 2 => (lo = 255 /\ hi = 127)
                      /\ wav.interleaved[i + 1] <= -2 => (lo = 0 /\ hi = 128)

C12_Witness ==
    /\ wav.encoded /\ wav.buffer.numberOfChannels = 2
    /\ wav.interleaved[1] = 3 /\ wav.bytes[HeaderSize + 1] = 255 /\ wav.bytes[HeaderSize + 2] = 127
    /\ wav.interleaved[2] = -3 /\ wav.bytes[HeaderSize + 3] = 0 /\ wav.bytes[HeaderSize + 4] = 128

\* C13: in the produced file the RIFF size field is the file length minus 8,
\* the data size field is frames*channels*2, the payload byte count, and the
\* payload starts at byte offset 44, right after the data tag and its size.
C13_HeaderSizes ==
    wav.encoded =>
        LET payload == wav.buffer.length * wav.buffer.numberOfChannels * 2
        IN  /\ Len(wav.bytes) = HeaderSize + payload
            /\ SubSeq(wav.bytes, 1, 4) = TagRIFF
            /\ ReadUint32LE(wav.bytes, 4) = Len(wav.bytes) - 8
            /\ SubSeq(wav.bytes, 37, 40) = TagData
            /\ ReadUint32LE(wav.bytes, 40) = payload

C13_Witness ==
    /\ wav.encoded /\ wav.buffer.numberOfChannels = 2 /\ wav.buffer.length = MaxFrames
    /\ ReadUint32LE(wav.bytes, 40) = 4 * MaxFrames

\* C21: a tick that finds a V2 generator not running (never started, not
\* started because its `on` flag was false, or stopped) creates no drop and no
\* thunder strike.
C21_NoEventWhileNotRunning ==
    [][ /\ ~rain2.started => rain2'.sinceStart.drops <= rain2.sinceStart.drops
        /\ ~thunder2.started => thunder2'.lastStrike.n = thunder2.lastStrike.n ]_vars

\* the strike timer thunderTimeout refers to, if it is armed
V1Ctl_armed(c) == {t \in c.timeouts : t.id = c.thunderTimeout}

C23_StrikeGapWithinDelay ==
    /\ ctl.lastGap # -1 =>
          /\ ctl.lastGap >= ctl.delayBetweenThunders.min
          /\ ctl.lastGap <= ctl.delayBetweenThunders.max
    /\ (thunder2.lastStrike.n > 0 /\ thunder2.gap.started) =>
          /\ thunder2.gap.time + thunder2.gap.dt >= thunder2.params.delayBetweenThunders.min
          /\ thunder2.gap.time <= thunder2.params.delayBetweenThunders.max + thunder2.gap.dt

\* C14: a drop or a strike of the schedule run on the offline context lies at
\* the rendered time at which the real-time regime, whose context time is the
\* timers' time, has it: the time elapsed since the controller was started.
C14_OfflineCadenceAsRealTime ==
    /\ offlineCtx.drops > 0 => offlineCtx.lastDrop.logical = offlineCtx.lastDrop.elapsed
    /\ offlineCtx.strikes > 0 => offlineCtx.lastStrike.logical = offlineCtx.lastStrike.elapsed

\* C15: whenever a step changes the thunder reverbDuration or reverbDecay
\* parameter, through any entry point, that step leaves the generator referring
\* to a newly created impulse-response buffer generated from the new values (the
\* buffer every burst voice created afterwards is given).
C15_ReverbFollowsParams ==
    [][ ( \/ thunder'.params.reverbDuration # thunder.params.reverbDuration
          \/ thunder'.params.reverbDecay # thunder.params.reverbDecay )
        => /\ thunder'.reverbBuffer # NULL
           /\ thunder'.reverbBuffer > Len(thunder.buffers)
           /\ \E uDuration \in RandHalves, uDecay \in RandHalves :
                 thunder'.buffers[thunder'.reverbBuffer] =
                   createImpulseResponse(
                     V1Thunder_evalRand(thunder'.params.reverbDuration, 20, uDuration),
                     V1Thunder_evalRand(thunder'.params.reverbDecay, 20, uDecay)) ]_vars

\* C16: the buffer a burst voice's convolver refers to still holds the kernel
\* it held when the voice was created, whatever reverb kernels were built since.
C16_VoiceKernelKept ==
    \A v \in thunder.convolvers : thunder.buffers[v.buffer] = v.kernel

C16_Witness ==
    \E v \in thunder.convolvers :
        /\ thunder.reverbBuffer # NULL
        /\ thunder.reverbBuffer # v.buffer
        /\ thunder.buffers[thunder.reverbBuffer] # v.kernel

\* C17: every burst voice of a strike is made with the values of filterFreq,
\* highPassFreq, panRange, reverbWetLevel, subLevel, crackleAmount, volume and
\* duration in force when the strike fired.
C17_BurstUsesStrikeParams ==
    \A i \in DOMAIN thunder.strikes :
        thunder.strikes[i].bursts > 0 =>
            LET st == thunder.strikes[i]
            IN  /\ \A k \in BurstParams :
                      \E u \in RandHalves :
                          st.lastBurst[k] = V1Thunder_evalRand(st.inForce[k], BurstDefault[k], u)
                /\ st.lastBurst.duration = st.duration
                /\ st.lastBurst.volume = st.volume

\* C18: every looping noise source of a rain generator that was started and
\* not stopped is the one the generator refers to, so there is at most one.
C18_OneNoiseSource ==
    /\ rain.sources \subseteq {rain.noiseNode}
    /\ rain2.sources \subseteq {rain2.noiseSource}

\* the nodes reached from the nodes of S along connections
RECURSIVE Downstream(_, _)
Downstream(edges, S) ==
    LET T == S \cup {e[2] : e \in {x \in edges : x[1] \in S}}
    IN  IF T = S THEN S ELSE Downstream(edges, T)

\* node has an outgoing connection that leads to the destination
TowardsDestination(edges, node) ==
    \E e \in edges : e[1] = node /\ Destination \in Downstream(edges, {e[2]})

V1Rain_persistent(r) == V1Rain_disconnected \cup {<<"noiseNode", id>> : id \in r.sources}
V2Rain_persistent(r) ==
    { Node("gainNode"), Node("dropGainNode"), Node("noiseGainNode"), Node("dryDropGainNode"),
      Node("wetDropGainNode"), Node("reverbNode"), Node("noiseFilter"), Node("noiseGain") }
      \cup V2Rain_eqNode \cup {<<"noiseSource", id>> : id \in r.sources}

\* C19: when destroy() of a rain generator has returned, none of its persistent
\* nodes (noise source, noise filter, gain stages, reverb convolver, EQ chain,
\* output gain) has an outgoing connection that leads to the destination.
C19_DestroySevers ==
    lastOp = "destroy" =>
        /\ sys = "V1Rain" => \A n \in V1Rain_persistent(rain) : ~TowardsDestination(rain.edges, n)
        /\ sys = "V2Rain" => \A n \in V2Rain_persistent(rain2) : ~TowardsDestination(rain2.edges, n)

\* C20: once the controller's stop() or the generator's destroy() has returned,
\* a strike triggered before it gets no new rumble or burst voice.
C20_NoVoiceAfterStop ==
    [][ \A i \in 1..thunder.halted :
            /\ thunder'.strikes[i].rumble <= thunder.strikes[i].rumble
            /\ thunder'.strikes[i].bursts <= thunder.strikes[i].bursts ]_vars

\* C24: the modulation time of a started V2 rain generator is the time ticked
\* since its last start(): 0 right after start(), then raised by dt per tick.
C24_ModulationTimeFromStart ==
    rain2.started => rain2.time = rain2.sinceStart.elapsed

\* C25: no step other than a parameter update (the model makes none on the V2
\* rain generator) changes a stored OscParam: value, amp, freq and osc of
\* params.osc.* are the same before and after every tick.
C25_TickKeepsOscParams ==
    [][rain2'.params.osc = rain2.params.osc]_vars


\* C26: a fired strike with a non-negative evaluated burstCount has
\* round(burstCount) burst voices (created or on their armed timeouts in V1,
\* created at once in V2): 2.4 gives 2, 2.6 gives 3. Counts are in tenths.
C26_BurstVoicesRounded ==
    /\ \A i \in DOMAIN thunder.strikes :
          LET s == thunder.strikes[i]
          IN  (s.fired /\ s.burstCount >= 0) => s.bursts + s.pending = (s.burstCount + 5) \div 10
    /\ LET s == thunder2.lastStrike
       IN  (s.n > 0 /\ s.count >= 0) => s.bursts = (s.count + 5) \div 10


\* the time already run of the periodic drop timer r refers to
V1Rain_inFlight(r) == {t.period - t.remaining : t \in {x \in r.intervals : x.id = r.dropInterval}}

\* C27: after the drop rate of a running V1 generator was changed, the
\* periodic drop timer the generator refers to has the period 1/rate of the
\* rate in force, and the step that changes the rate leaves the time already
\* run of that timer as it was (the in-flight interval is not restarted).
C27_RateChangeKeepsInterval ==
    /\ []((sys = "V1Rain" /\ rain.running) =>
            \A t \in rain.intervals :
               t.id = rain.dropInterval => t.period = MsPerSecond \div rain.params.dropRate)
    /\ [][ (sys = "V1Rain" /\ rain.running /\ rain'.running
             /\ rain'.params.dropRate # rain.params.dropRate)
           => V1Rain_inFlight(rain') = V1Rain_inFlight(rain) ]_vars


\* C28: the grain buffer of every raindrop lasts min(decayTime, 0.2 s), in
\* the V1 generator (dropDecayTime) and in the V2 generator (drops.decayTime).
C28_GrainAtMostFifthOfSecond ==
    /\ rain.lastDrop.duration # 0 =>
          rain.lastDrop.duration = Min(rain.params.dropDecayTime, 200)
    /\ rain2.lastDrop.duration # 0 =>
          rain2.lastDrop.duration = Min(rain2.params.decayTime, 200)


\* C29: the V1 rain generator has at most one periodic drop timer armed, and
\* dropInterval is its handle, after any calls of start(), stop() and
\* setDropRate() and any timer firings.
C29_OneDropTimer ==
    /\ Cardinality(rain.intervals) <= 1
    /\ \A t \in rain.intervals : t.id = rain.dropInterval

\* C30: the V1 controller has at most one strike timer armed, and
\* thunderTimeout is its handle, after any calls of start(), stop(),
\* startThunder() and stopThunder() and any timer firings.
C30_OneStrikeTimer ==
    /\ Cardinality(ctl.timeouts) <= 1
    /\ \A t \in ctl.timeouts : t.id = ctl.thunderTimeout


\* C31: when stop() is the last call made on a V1 rain generator whose start()
\* is still waiting for audioCtx.resume(), the continuation of that start()
\* leaves the generator not running, with no noise source and no drop timer.
C31_StopWinsOverPendingStart ==
    [][ (sys = "V1Rain" /\ lastOp \in StopOps /\ rain'.startPending < rain.startPending)
        => /\ ~rain'.running
           /\ rain'.noiseNode = NULL
           /\ rain'.dropInterval = NULL ]_vars


C33_LevelSurvivesRestart ==
    (sys = "V1Levels" /\ rain.running) =>
        \A g \in LevelGains : hist.lastSet[g] # -1 => rain.gain[g] = hist.lastSet[g]


\* C34: a call on one V1 controller built with default parameters changes
\* neither what another instance reads as its parameters (rainParams with its
\* on flag, which decides whether start() starts rain, thunderParams,
\* eqGains) nor the default-parameter constants.
C34_InstancesIsolated ==
    [][ \A o \in (Instances \cup {"default"}) \ {insts'.caller} :
           V1Insts_params(insts', o) = V1Insts_params(insts, o) ]_vars


\* C35: the promise of renderToFile(durationSec) is never rejected: when the
\* offline context has rendered its durationSec the call goes on to make the
\* file from the rendered buffer.
C35_RenderToFileResolves ==
    offlineCtx.result # "rejected"


\* C36: the accumulator of the V2 rain generator is at least 0 and below the
\* drop period 1/rate after every tick (and before the first), and a tick of
\* dt fires as many drops as whole periods fit in the accumulator plus dt,
\* leaving the remainder in the accumulator.
C36_AccumulatorBelowPeriod ==
    /\ [](rain2.dropInterval >= 0
           /\ rain2.dropInterval < MsPerSecond \div rain2.params.rate)
    /\ [][ rain2'.time # rain2.time =>
             LET total == rain2.dropInterval + (rain2'.time - rain2.time)
                 period == MsPerSecond \div rain2.params.rate
             IN  /\ rain2'.sinceStart.drops - rain2.sinceStart.drops = total \div period
                 /\ rain2'.dropInterval = total % period ]_vars

C36_Witness ==
    /\ sys = "V2Rain" /\ rain2.started /\ rain2.params.rate = 5
    /\ rain2.sinceStart.elapsed = 300 /\ rain2.sinceStart.drops = 1
    /\ rain2.dropInterval = 100


\* C37: the gain of every peaking-EQ band of the V1 rain generator is the
\* stored eqGains parameter of that band, after any setParams call, a call
\* with an eqGains array of another length than the bands included.
C37_BandGainsFollowParams ==
    \A i \in DOMAIN rain.eqBandGain :
        /\ i \in DOMAIN rain.params.eqGains
        /\ rain.eqBandGain[i] = rain.params.eqGains[i]

====
